---- MODULE Spec2Model ----
(***************************************************************************)
(* Reconciliation-and-cache engine of notionSync:                          *)
(*   exporters/cache.py           ExportCache (the cache store)            *)
(*   exporters/base.py            TaskExporter (construction, extraction)  *)
(*   exporters/apple_calendar.py  AppleCalendarExporter.export_tasks       *)
(* The calendar (EventKit) and the file system are the environment: every  *)
(* call into them is a nondeterministic choice among its outcomes.         *)
(***************************************************************************)
EXTENDS Integers, Sequences, FiniteSets, TLC

\* ------------------------------------------------------------------ bounds
\* Records processed in one behaviour, over all calls of export_tasks.
MaxSteps == 2
\* Longest batch of a call that is repeated.
MaxBatch == 2
\* Mutating operations applied to one cache file, over all processes.
MaxOps == 2

\* ------------------------------------------------------------ Python values
\* Python's None.
None == "None"

\* A test "is not None" in place of truthiness: "" passes.
Truthy_not_none(x) == x # None

\* Python truthiness of an optional string: None and "" are falsy.
Truthy(x) == x # None /\ x # ""

\* dict.get that tells an absent key from a null value.
Get_absent_marker(d, field) == IF field \in DOMAIN d THEN d[field] ELSE "absent"

\* dict.get(field): the value, or None when the key is absent.
Get(d, field) == IF field \in DOMAIN d THEN d[field] ELSE None

\* "".join(parts)
RECURSIVE Join(_)
Join(parts) == IF parts = <<>> THEN "" ELSE Head(parts) \o Join(Tail(parts))

\* ------------------------------------------------------------------ inputs
\* Source ids of the Notion pages.
TaskIds == {"t1", "t2"}

\* A Notion page as extract_task_data reads it: the plain_text parts of the
\* "Task name" title, the "Due" date (<<>> when null, else <<start, end>>),
\* the "Status" name, the names of the "Assign" people.
BasePage(id) ==
    [id |-> id, title |-> <<"Write ", "report">>, due |-> <<"2025-01-10", None>>,
     status |-> "Not started", people |-> <<>>,
     created_time |-> "c0", last_edited_time |-> "m0", url |-> "u0"]

\* The variations of a page: each differs from the base page in one property.
PageVariants(id) ==
    { BasePage(id),
      [BasePage(id) EXCEPT !.title = <<>>],
      [BasePage(id) EXCEPT !.due = <<>>],
      [BasePage(id) EXCEPT !.status = "Done"],
      [BasePage(id) EXCEPT !.people = <<"Ann">>, !.last_edited_time = "m1"] }

Pages == PageVariants("t1") \cup {BasePage("t2")}

Batches == UNION { [1..n -> Pages] : n \in 0..MaxBatch }

\* ------------------------------------------------------- exporters/base.py
\* TaskExporter.extract_task_data
ExtractTaskData(task) ==
    [id |-> task.id,
     title |-> IF Join(task.title) = "" THEN "Untitled" ELSE Join(task.title),
     due_start |-> IF task.due # <<>> THEN task.due[1] ELSE None,
     due_end |-> IF task.due # <<>> THEN task.due[2] ELSE None,
     status |-> task.status,
     assignees |-> task.people,
     created_time |-> task.created_time,
     last_edited_time |-> task.last_edited_time,
     url |-> task.url]

\* ------------------------------------------------------ exporters/cache.py
\* ExportCache.__init__: self.cache = {}
EmptyCache == [k \in {} |-> None]

\* The cache file: absent, a complete JSON document holding a mapping, or a
\* truncated / partially written document (json.load raises JSONDecodeError).
AbsentFile == [kind |-> "absent", data |-> EmptyCache]
PartialFile == [kind |-> "partial", data |-> EmptyCache]

\* The other states a cache file can be found in: of length zero, a JSON
\* document that is not an object (json.load returns a list, a number, ..),
\* bytes that are not UTF-8 (reading raises UnicodeDecodeError), and a file
\* open() refuses (PermissionError, an OSError).
EmptyFile == [kind |-> "empty", data |-> EmptyCache]
NotMappingFile == [kind |-> "not_mapping", data |-> EmptyCache]
UndecodableFile == [kind |-> "undecodable", data |-> EmptyCache]
UnreadableFile == [kind |-> "unreadable", data |-> EmptyCache]

\* The key json.dump writes for a key of the dict: a str as it is, None as
\* "null".
JsonKey(k) == IF k = None THEN "null" ELSE k

\* json.dump(self.cache, f, indent=2, ensure_ascii=False), complete: the
\* object holds one member per key written; the values are str, None, list
\* and dict, which JSON has.
Dump(c) ==
    [kind |-> "json",
     data |-> [j \in {JsonKey(k) : k \in DOMAIN c} |->
                 c[CHOOSE k \in DOMAIN c : JsonKey(k) = j]]]

\* _load reading nothing from the file.
Load_nothing(f) == EmptyCache

\* ExportCache._load: self.cache when it is a dict after _load. The absent
\* file, and the JSONDecodeError and IOError caught, leave {}.
Load(f) == IF f.kind = "json" THEN f.data ELSE EmptyCache

\* ExportCache._load: whether an exception leaves it. UnicodeDecodeError is a
\* ValueError that is neither a JSONDecodeError nor an IOError.
LoadRaises(f) == f.kind = "undecodable"

\* ExportCache._load: whether self.cache is a dict after it. json.load of a
\* document that is not an object succeeds and its value is assigned.
LoadsMapping(f) == f.kind # "not_mapping"

\* What the with-block of _save leaves in the file. open(.., "w") truncates
\* the file before json.dump writes it piece by piece.
\*   ok           the document is written and closed
\*   open_error   open raises IOError: nothing is touched (caught, printed)
\*   write_error  a write raises IOError after the truncation (caught, printed)
\*   mkdir_error  parent.mkdir raises OSError outside the try: it propagates
SaveOutcomes == {"ok", "open_error", "write_error", "mkdir_error"}

\* The instants of _save at which the process can die.
CrashPoints == {"before_open", "mid_write", "after_close"}

\* _save that writes the entries of the store into the document on the file
\* and leaves the other members of the document.
Save_merges(c, f, s) ==
    CASE s = "ok" ->
           IF f.kind = "json"
           THEN [kind |-> "json",
                 data |-> [k \in DOMAIN c \cup DOMAIN f.data |->
                             IF k \in DOMAIN c THEN c[k] ELSE f.data[k]]]
           ELSE Dump(c)
      [] s = "write_error" -> PartialFile
      [] OTHER -> f

\* ExportCache._save: the file after the call returns (or raises).
Save(c, f, s) ==
    CASE s = "ok" -> Dump(c)
      [] s = "write_error" -> PartialFile
      [] OTHER -> f

\* ExportCache._save interrupted by a crash of the process.
SaveCrashed(c, f, point) ==
    CASE point = "before_open" -> f
      [] point = "mid_write" -> PartialFile
      [] OTHER -> Dump(c)

\* Whether _save raises to its caller.
SaveRaises(s) == s = "mkdir_error"

\* ExportCache.get_entry, as a test: an entry set by set_entry is a non-empty
\* dict, so "not entry" is "no entry".
HasEntry(c, notion_id) == notion_id \in DOMAIN c

\* fields_to_check without the status.
fields_to_check_no_status == <<"title", "due_start", "due_end">>

\* fields_to_check of has_changes
fields_to_check == <<"title", "due_start", "due_end", "status">>

\* has_changes comparing with the entry itself instead of its task_data.
has_changes_on_entry(c, notion_id, task_data) ==
    IF ~HasEntry(c, notion_id) THEN TRUE
    ELSE \E n \in 1..Len(fields_to_check) :
            Get(task_data, fields_to_check[n]) # Get(c[notion_id], fields_to_check[n])

\* has_changes that never looks at the store.
has_changes_always(c, notion_id, task_data) == TRUE

\* ExportCache.has_changes
has_changes(c, notion_id, task_data) ==
    IF ~HasEntry(c, notion_id) THEN TRUE
    ELSE LET entry == c[notion_id]
             cached_data == IF "task_data" \in DOMAIN entry
                            THEN entry.task_data ELSE EmptyCache
         IN \E n \in 1..Len(fields_to_check) :
               Get(task_data, fields_to_check[n]) # Get(cached_data, fields_to_check[n])

\* get_external_id that answers an absent entry with the empty string.
get_external_id_or_empty(c, notion_id) ==
    IF HasEntry(c, notion_id) THEN Get(c[notion_id], "external_id") ELSE ""

\* ExportCache.get_external_id
get_external_id(c, notion_id) ==
    IF HasEntry(c, notion_id) THEN Get(c[notion_id], "external_id") ELSE None

\* set_entry that keeps the entry only when it is given to _save.
set_entry_no_snapshot(c, notion_id, external_id, task_data, exporter_type, now) ==
    [k \in DOMAIN c \cup {notion_id} |->
        IF k = notion_id
        THEN [external_id |-> external_id, task_data |-> EmptyCache,
              exporter_type |-> exporter_type, last_synced |-> now]
        ELSE c[k]]

\* The in-memory mapping after ExportCache.set_entry (before _save).
set_entry(c, notion_id, external_id, task_data, exporter_type, now) ==
    [k \in DOMAIN c \cup {notion_id} |->
        IF k = notion_id
        THEN [external_id |-> external_id, task_data |-> task_data,
              exporter_type |-> exporter_type, last_synced |-> now]
        ELSE c[k]]

\* ExportCache.get_entry: the entry, or None.
get_entry(c, notion_id) == IF notion_id \in DOMAIN c THEN c[notion_id] ELSE None

\* The in-memory mapping after ExportCache.remove_entry.
remove_entry(c, notion_id) == [k \in DOMAIN c \ {notion_id} |-> c[k]]

\* ExportCache.remove_entry: whether it calls _save.
RemoveSaves(c, notion_id) == notion_id \in DOMAIN c

\* The in-memory mapping after ExportCache.clear.
clear == EmptyCache

\* ExportCache.get_all_entries: the mapping returned. A falsy exporter_type
\* (None, "") is no filter.
get_all_entries(c, exporter_type) ==
    IF Truthy(exporter_type)
    THEN [k \in {x \in DOMAIN c : Get(c[x], "exporter_type") = exporter_type} |-> c[k]]
    ELSE c

\* ExportCache.get_all_entries: the keys under which the mapping returned
\* holds the entry object self.cache holds. dict.copy() and the
\* comprehension build a new dict and copy the references to the values.
SharedEntries(returned) == DOMAIN returned

\* --------------------------------------------- exporters/apple_calendar.py
\* AppleCalendarExporter.get_exporter_name
get_exporter_name == "apple_calendar"

\* The calendar's answers to one record's calls.
\*   fetch   eventWithIdentifier_: the event, nothing, or an exception
\*   create  saveEvent of a new event: saved with an identifier, refused,
\*           saved with an empty identifier, or an exception on the way
\*           (_create_event has no try: _parse_date or EventKit raising)
\*   update  saveEvent of the fetched event: saved, refused, or an exception
AdapterOutcomes ==
    [fetch : {"found", "not_found", "raise"},
     create : {"ok", "fail", "empty", "raise"},
     update : {"ok", "fail", "raise"}]

\* The identifier EventKit gives the n-th event it saves.
EventIdentifier(n) == "e" \o ToString(n)

\* _get_event_by_id whose result is not tested: every cached id is updated.
GetEventById_unchecked(o) == TRUE

\* _get_event_by_id that takes an exception of the lookup for an event.
GetEventById_raise_is_found(o) == o.fetch # "not_found"

\* AppleCalendarExporter._get_event_by_id: whether an event is returned
\* (an exception is caught and None returned).
GetEventById(o) == o.fetch = "found"

\* AppleCalendarExporter._update_event: the success flag
\* (an exception is caught and False returned).
UpdateEvent(o) == o.update = "ok"

\* AppleCalendarExporter._create_event: the returned identifier, when it
\* returns.
CreateEvent(o, n) ==
    CASE o.create = "ok" -> EventIdentifier(n)
      [] o.create = "empty" -> ""
      [] OTHER -> None

\* AppleCalendarExporter._create_event: whether an exception leaves it.
CreateRaises(o) == o.create = "raise"

\* _request_calendar_access, line 107: the seconds it waits for the callback.
timeout == 60

\* EKEventStore.authorizationStatusForEntityType_: 0 not determined,
\* 1 restricted, 2 denied, 3 and above authorized.
AuthStatuses == 0..4

\* The wait of _request_calendar_access without the test of the time.
KeepWaiting_no_timeout(completed, elapsed) == ~completed

\* _request_calendar_access, line 110: the condition of the while loop, on
\* request_completed[0] and the whole seconds of time.time() - start_time.
KeepWaiting(completed, elapsed) == ~completed /\ elapsed < timeout

\* _request_calendar_access, lines 117-136: what it returns after the loop.
AccessResult(completed, granted) == completed /\ granted

\* The first filter left out: every record is eligible.
NoDueDate_never(task_data) == FALSE

\* export_tasks, lines 410-412: the record has no due_start.
NoDueDate(task_data) == ~Truthy(Get(task_data, "due_start"))

\* The second filter without the test of skip_completed.
IsCompleted_ignores_flag(skip, task_data) == Get(task_data, "status") = "Done"

\* export_tasks, lines 414-416: the record is completed and completed
\* records are skipped.
IsCompleted(skip, task_data) == skip /\ Get(task_data, "status") = "Done"

\* What one iteration of the loop of export_tasks does with a record, up to
\* the call of set_entry:
\*   bucket       the counter it increments ("none": an exception came first)
\*   calls        the adapter calls it makes, in order
\*   write        whether it calls set_entry, and with which external_id
\*   raised       whether an exception reached the except clause
\*   failed       whether its create or update call failed
Step(bucket, calls, write, external_id, raised, failed) ==
    [bucket |-> bucket, calls |-> calls, write |-> write,
     external_id |-> external_id, raised |-> raised, failed |-> failed]

\* The create branches without their call of set_entry.
CreateBranch_no_write(o, n, calls) ==
    IF CreateRaises(o)
    THEN Step("none", Append(calls, "create"), FALSE, None, TRUE, TRUE)
    ELSE LET event_id == CreateEvent(o, n)
         IN IF Truthy(event_id)
            THEN Step("created", Append(calls, "create"), FALSE, None, FALSE, FALSE)
            ELSE Step("skipped", Append(calls, "create"), FALSE, None, FALSE, TRUE)

\* export_tasks, lines 437-444 and 447-455: create the event.
CreateBranch(o, n, calls) ==
    IF CreateRaises(o)
    THEN Step("none", Append(calls, "create"), FALSE, None, TRUE, TRUE)
    ELSE LET event_id == CreateEvent(o, n)
         IN IF Truthy(event_id)
            THEN Step("created", Append(calls, "create"), TRUE, event_id, FALSE, FALSE)
            ELSE Step("skipped", Append(calls, "create"), FALSE, None, FALSE, TRUE)

\* The update branch storing the identifier of the event as saved anew.
UpdateBranch_new_id(o, event_id) ==
    IF UpdateEvent(o)
    THEN Step("updated", <<"fetch", "update">>, TRUE, event_id \o "'", FALSE, FALSE)
    ELSE Step("skipped", <<"fetch", "update">>, FALSE, None, FALSE, TRUE)

\* The update branch with set_entry after the if instead of inside it.
UpdateBranch_write_always(o, event_id) ==
    IF UpdateEvent(o)
    THEN Step("updated", <<"fetch", "update">>, TRUE, event_id, FALSE, FALSE)
    ELSE Step("skipped", <<"fetch", "update">>, TRUE, event_id, FALSE, TRUE)

\* export_tasks, lines 425-434: update the fetched event.
UpdateBranch(o, event_id) ==
    IF UpdateEvent(o)
    THEN Step("updated", <<"fetch", "update">>, TRUE, event_id, FALSE, FALSE)
    ELSE Step("skipped", <<"fetch", "update">>, FALSE, None, FALSE, TRUE)

\* export_tasks, lines 409-458: one record, once lines 406-407 have read its
\* notion_id and extracted its task_data.
Reconcile(c, skip, notion_id, task_data, o, n) ==
    IF NoDueDate(task_data) THEN Step("skipped", <<>>, FALSE, None, FALSE, FALSE)
    ELSE IF IsCompleted(skip, task_data)
    THEN Step("skipped", <<>>, FALSE, None, FALSE, FALSE)
    ELSE IF has_changes(c, notion_id, task_data)
    THEN IF Truthy(get_external_id(c, notion_id))
         THEN IF GetEventById(o)
              THEN UpdateBranch(o, get_external_id(c, notion_id))
              ELSE CreateBranch(o, n, <<"fetch">>)
         ELSE CreateBranch(o, n, <<>>)
    ELSE Step("skipped", <<>>, FALSE, None, FALSE, FALSE)

\* export_tasks, line 380: the result it starts from.
NewResult == [success |-> FALSE, created |-> 0, updated |-> 0, skipped |-> 0,
              errors |-> <<>>]

\* result[bucket] += 1
Count(res, bucket) ==
    CASE bucket = "created" -> [res EXCEPT !.created = @ + 1]
      [] bucket = "updated" -> [res EXCEPT !.updated = @ + 1]
      [] bucket = "skipped" -> [res EXCEPT !.skipped = @ + 1]
      [] OTHER -> res

\* export_tasks, lines 460-463: the message of the except clause.
ErrorMessage(task) == <<"Error processing task", task.id>>

\* result["errors"].append(..) when an exception reached the except clause.
Record(res, raised, task) ==
    IF raised THEN [res EXCEPT !.errors = Append(@, ErrorMessage(task))] ELSE res

\* success set to True on every normal return.
Success_always(errors) == TRUE

\* export_tasks, line 465
Success(errors) == Len(errors) = 0

\* ------------------------------------------------------------------- state
VARIABLES
    cache,           \* ExportCache.cache of the running process
    file,            \* the cache file
    skip_completed,  \* AppleCalendarExporter.skip_completed
    pc,              \* "idle", "loop", "done" (export_tasks returned), "crashed",
                     \* "interrupted"; "new" (no ExportCache yet), "aborted"
    tasks,           \* the batch of the call, when the call is to be repeated
    ntasks,          \* len(tasks) of the current call
    i,               \* position of the loop in the batch
    result,          \* the result dict of the current call
    clock,           \* datetime.now(), counted in calls of set_entry
    events,          \* number of events the calendar has saved with an identifier
    steps,           \* records processed so far, over all calls
    last,            \* what the latest iteration of the loop did
    shadowCache,     \* the store of the same call run without its failing records
    shadowFile,      \* the file of that run
    synced,          \* source ids whose create or update has succeeded
    clean,           \* the first call of a repeated batch reached the loop and no
                     \* call into the calendar or the file system failed in it
    round,           \* calls begun on a repeated batch
    call,            \* the operation of ExportCache applied last, with its arguments
    ret,             \* what it returned
    error,           \* whether an exception left it
    mapping,         \* whether self.cache is a dict
    auth,            \* _request_calendar_access: its position and its locals
    threads,         \* the calls of set_entry and remove_entry in progress,
                     \* one per thread
    runs             \* the processes that share the cache file, each with
                     \* its own ExportCache

\* The variables only the specifications other than Spec change.
twiceVars == <<tasks, clean, round>>
apiVars == <<call, ret, error, mapping, auth, threads, runs>>

vars == <<cache, file, skip_completed, pc, tasks, ntasks, i, result, clock, events,
          steps, last, shadowCache, shadowFile, synced, clean, round, call, ret,
          error, mapping, auth, threads, runs>>

\* Identifiers _create_event has returned so far.
Issued == { EventIdentifier(k) : k \in 1..events }

\* `last` before any iteration of a call.
NoStep ==
    [id |-> None, task_data |-> EmptyCache, bucket |-> "none", calls |-> <<>>,
     failed |-> FALSE,
     raised |-> FALSE, fetch |-> "-", create |-> "-", update |-> "-",
     save |-> "-", shadow |-> "none"]

\* No operation of ExportCache has been applied.
NoCall == [op |-> "none", id |-> None, task_data |-> EmptyCache]

\* _request_calendar_access has not been called.
NoAuth ==
    [pc |-> "none", status |-> 0, completed |-> FALSE, granted |-> FALSE,
     elapsed |-> 0, result |-> FALSE]

\* The threads that share one ExportCache.
ThreadIds == {"A", "B"}

\* No thread is in a call of ExportCache.
NoThreads ==
    [t \in ThreadIds |-> [pc |-> "ready", op |-> "none", id |-> None,
                          buf |-> AbsentFile]]

\* The processes that run export_tasks on the same cache file.
RunIds == {"P", "Q"}

\* No process has built its exporter: no ExportCache, nothing loaded at
\* time `loaded`, nothing saved at time `saved`.
NoRuns ==
    [r \in RunIds |-> [pc |-> "new", cache |-> EmptyCache, loaded |-> 0,
                       saved |-> 0]]

\* No call of export_tasks has begun.
Idle ==
    /\ pc = "idle"
    /\ ntasks = 0
    /\ i = 1
    /\ result = NewResult
    /\ clock = 0
    /\ events = 0
    /\ steps = 0
    /\ last = NoStep
    /\ shadowCache = EmptyCache
    /\ shadowFile = AbsentFile
    /\ synced = {}
    /\ clean = FALSE
    /\ round = 0
    /\ call = NoCall
    /\ ret = None
    /\ error = FALSE
    /\ mapping = TRUE
    /\ auth = NoAuth
    /\ threads = NoThreads
    /\ runs = NoRuns

\* The state after the exporter is constructed on a machine without a cache
\* file: TaskExporter.__init__ builds the ExportCache, which loads nothing.
Init ==
    /\ file = AbsentFile
    /\ cache = Load(AbsentFile)
    /\ skip_completed \in BOOLEAN
    /\ tasks = <<>>
    /\ Idle

\* export_tasks, lines 388-401: the three checks before the loop.
StartOutcomes == {"ok", "config_invalid", "access_denied", "no_calendar"}

StartError(start) ==
    CASE start = "config_invalid" -> <<"Configuration validation failed", "">>
      [] start = "access_denied" -> <<"Calendar access denied", "">>
      [] OTHER -> <<"Failed to get/create calendar", "">>

\* A failed check appends its error without returning.
Begin_no_return(len, start) ==
    /\ pc \in {"idle", "done"}
    /\ ntasks' = len
    /\ i' = 1
    /\ result' = IF start = "ok" THEN NewResult
                 ELSE [NewResult EXCEPT !.errors = <<StartError(start)>>]
    /\ pc' = "loop"
    /\ last' = NoStep
    /\ shadowCache' = cache
    /\ shadowFile' = file
    /\ UNCHANGED <<cache, file, skip_completed, clock, events, steps, synced>>

\* export_tasks, lines 380-401: a call on a batch of len records begins; it
\* returns at once when a check fails.
Begin(len, start) ==
    /\ pc \in {"idle", "done"}
    /\ ntasks' = len
    /\ i' = 1
    /\ result' = IF start = "ok" THEN NewResult
                 ELSE [NewResult EXCEPT !.errors = <<StartError(start)>>]
    /\ pc' = IF start = "ok" THEN "loop" ELSE "done"
    /\ last' = NoStep
    /\ shadowCache' = cache
    /\ shadowFile' = file
    /\ UNCHANGED <<cache, file, skip_completed, clock, events, steps, synced>>

\* Whether calls holds the call name.
Calls(calls, name) == \E n \in 1..Len(calls) : calls[n] = name

\* What `last` keeps of an iteration: the record's id and data, the counter
\* incremented, the calls made and their outcomes, the outcome of _save, and
\* the counter the run without the failing records increments.
LogEntry(notion_id, task_data, st, o, s, sh) ==
    [id |-> notion_id, task_data |-> task_data, bucket |-> st.bucket,
     calls |-> st.calls,
     failed |-> st.failed, raised |-> st.raised \/ (st.write /\ SaveRaises(s)),
     fetch |-> IF Calls(st.calls, "fetch") THEN o.fetch ELSE "-",
     create |-> IF Calls(st.calls, "create") THEN o.create ELSE "-",
     update |-> IF Calls(st.calls, "update") THEN o.update ELSE "-",
     save |-> IF st.write THEN s ELSE "-",
     shadow |-> sh]

\* The outcomes of one iteration's calls. An iteration makes at most one of
\* create and update, updates only what it fetched, and saves only after a
\* call that succeeded; the outcome of a call that cannot be made is "ok".
Scenarios ==
    { x \in [o : AdapterOutcomes, s : SaveOutcomes] :
        /\ x.o.create = "ok" \/ x.o.update = "ok"
        /\ x.o.fetch = "found" \/ x.o.update = "ok"
        /\ x.s = "ok" \/ (x.o.create = "ok" /\ x.o.update = "ok") }

\* The outcomes of the calls an iteration does not make are not inputs.
Made(st, o, s) ==
    /\ Calls(st.calls, "fetch") \/ o.fetch = "found"
    /\ Calls(st.calls, "create") \/ o.create = "ok"
    /\ Calls(st.calls, "update") \/ o.update = "ok"
    /\ st.write \/ s = "ok"

\* An iteration that does not call set_entry removes the record's entry.
StoreAfter_evicts(c, notion_id, task_data, st, now) ==
    IF st.write
    THEN set_entry(c, notion_id, st.external_id, task_data, get_exporter_name, now)
    ELSE remove_entry(c, notion_id)

\* The store after an iteration (set_entry, if it is called).
StoreAfter(c, notion_id, task_data, st, now) ==
    IF st.write
    THEN set_entry(c, notion_id, st.external_id, task_data, get_exporter_name, now)
    ELSE c

\* A _save that keeps the members of the document on the file that the
\* mapping does not have.
FileAfter_keeps_file(c1, f, st, s) ==
    IF st.write /\ s = "ok"
    THEN [kind |-> "json",
          data |-> [k \in DOMAIN c1 \cup DOMAIN Load(f) |->
                      IF k \in DOMAIN c1 THEN c1[k] ELSE Load(f)[k]]]
    ELSE f

\* Every iteration ends with a _save.
FileAfter_always_saves(c1, f, st, s) == Save(c1, f, s)

\* The file after an iteration that leaves the store c1 and whose _save, if
\* any, ends with outcome s.
FileAfter(c1, f, st, s) == IF st.write THEN Save(c1, f, s) ELSE f

\* The try around the for instead of inside it: an exception ends the loop.
AfterIteration_abort(raised) == IF raised THEN "done" ELSE "loop"

\* export_tasks, lines 404-405 and 460: the try is inside the for, so the
\* loop goes on whether or not the iteration raised.
AfterIteration(raised) == "loop"

\* export_tasks, lines 404-463: one iteration of the loop, on record task.
\* The run without the failing records makes the same step on its own store
\* unless the record's create or update fails.
Process(task) ==
    /\ pc = "loop"
    /\ i <= ntasks
    /\ \E x \in Scenarios, task_data \in {ExtractTaskData(task)} :
       \E st \in {Reconcile(cache, skip_completed, task.id, task_data, x.o, events + 1)} :
        /\ Made(st, x.o, x.s)
        /\ \E c1 \in {StoreAfter(cache, task.id, task_data, st, clock + 1)},
              exc \in {st.raised \/ (st.write /\ SaveRaises(x.s))},
              sh \in {Reconcile(shadowCache, skip_completed, task.id, task_data,
                                x.o, events + 1)} :
            /\ cache' = c1
            /\ file' = FileAfter(c1, file, st, x.s)
            /\ result' = Record(Count(result, st.bucket), exc, task)
            /\ last' = LogEntry(task.id, task_data, st, x.o, x.s,
                                IF st.failed THEN "none" ELSE sh.bucket)
            /\ clock' = IF st.write THEN clock + 1 ELSE clock
            /\ events' = IF st.bucket = "created" THEN events + 1 ELSE events
            /\ synced' = IF st.bucket \in {"created", "updated"}
                         THEN synced \cup {task.id} ELSE synced
            /\ pc' = AfterIteration(exc)
            /\ IF st.failed
               THEN UNCHANGED <<shadowCache, shadowFile>>
               ELSE \E c2 \in {StoreAfter(shadowCache, task.id, task_data, sh, clock + 1)} :
                      /\ shadowCache' = c2
                      /\ shadowFile' = FileAfter(c2, shadowFile, sh, x.s)
    /\ i' = i + 1
    /\ steps' = steps + 1
    /\ UNCHANGED <<skip_completed, ntasks>>

\* The process dies inside the _save of an iteration's set_entry.
Crash(task) ==
    /\ pc = "loop"
    /\ i <= ntasks
    /\ \E x \in Scenarios, task_data \in {ExtractTaskData(task)} :
       \E st \in {Reconcile(cache, skip_completed, task.id, task_data, x.o, events + 1)} :
        /\ x.s = "ok"
        /\ st.write
        /\ Made(st, x.o, x.s)
        /\ \E c1 \in {StoreAfter(cache, task.id, task_data, st, clock + 1)},
              point \in CrashPoints :
            /\ cache' = c1
            /\ file' = SaveCrashed(c1, file, point)
            /\ last' = LogEntry(task.id, task_data, st, x.o, point, "none")
            /\ result' = Count(result, st.bucket)
            /\ events' = IF st.bucket = "created" THEN events + 1 ELSE events
            /\ synced' = synced \cup {task.id}
    /\ clock' = clock + 1
    /\ steps' = steps + 1
    /\ pc' = "crashed"
    /\ UNCHANGED <<skip_completed, ntasks, i, shadowCache, shadowFile>>

\* export_tasks, lines 465-466: the loop is over.
Return ==
    /\ pc = "loop"
    /\ i > ntasks
    /\ result' = [result EXCEPT !.success = Success(result.errors)]
    /\ pc' = "done"
    /\ UNCHANGED <<cache, file, skip_completed, ntasks, i, clock, events, steps,
                   last, shadowCache, shadowFile, synced>>

\* The program is started again: TaskExporter.__init__ builds a new
\* ExportCache, which loads the file. Nothing of the old process is left.
Restart ==
    /\ pc \in {"done", "crashed"}
    /\ cache' = Load(file)
    /\ pc' = "idle"
    /\ ntasks' = 0
    /\ i' = 1
    /\ result' = NewResult
    /\ last' = NoStep
    /\ shadowCache' = EmptyCache
    /\ shadowFile' = AbsentFile
    /\ UNCHANGED <<file, skip_completed, clock, events, steps, synced>>

\* ---- Spec: calls of export_tasks on arbitrary batches, MaxSteps records in
\* all. The batch of a call is any sequence over Pages; its i-th record is
\* drawn when the loop reads it.
ExportBegin ==
    /\ \E len \in 0..(MaxSteps - steps), start \in StartOutcomes : Begin(len, start)
    /\ UNCHANGED <<twiceVars, apiVars>>

ProcessTask ==
    /\ \E task \in Pages : Process(task)
    /\ UNCHANGED <<twiceVars, apiVars>>

CrashInSave ==
    /\ \E task \in Pages : Crash(task)
    /\ UNCHANGED <<twiceVars, apiVars>>

ExportReturn == Return /\ UNCHANGED <<twiceVars, apiVars>>

NewProcess == Restart /\ UNCHANGED <<twiceVars, apiVars>>

Next == ExportBegin \/ ProcessTask \/ CrashInSave \/ ExportReturn \/ NewProcess

Spec == Init /\ [][Next]_vars

\* ---- SpecTwice: export_tasks is called on a batch and, when nothing failed
\* in that call, once more on the same batch, by the same process or by a
\* new one.
InitTwice ==
    /\ file = AbsentFile
    /\ cache = Load(AbsentFile)
    /\ skip_completed \in BOOLEAN
    /\ tasks \in Batches
    /\ Idle

\* Whether nothing failed in the iteration `last` describes.
StepClean(l) ==
    /\ ~l.failed
    /\ ~l.raised
    /\ l.fetch # "raise"
    /\ l.save \in {"-", "ok"}

TwiceBegin ==
    /\ round < 2
    /\ round = 1 => clean
    /\ \E start \in StartOutcomes :
        /\ Begin(Len(tasks), start)
        /\ clean' = IF round = 0 THEN start = "ok" ELSE clean
    /\ round' = round + 1
    /\ UNCHANGED <<tasks, apiVars>>

TwiceProcess ==
    /\ Process(tasks[i])
    /\ clean' = IF round = 1 THEN clean /\ StepClean(last') ELSE clean
    /\ UNCHANGED <<tasks, round, apiVars>>

TwiceCrash ==
    /\ Crash(tasks[i])
    /\ clean' = (round = 2 /\ clean)
    /\ UNCHANGED <<tasks, round, apiVars>>

NextTwice == TwiceBegin \/ TwiceProcess \/ TwiceCrash \/ ExportReturn \/ NewProcess

SpecTwice == InitTwice /\ [][NextTwice]_vars

\* ---- SpecChange: has_changes applied to a store of one entry or none and
\* to any candidate record.
\* The snapshots set_entry can have stored (export_tasks stores records with
\* a due_start only) and the records extract_task_data can produce.
Snapshots ==
    [id : {"t1"}, title : {"Write report", "Untitled"},
     due_start : {"2025-01-10", "2025-01-11"}, due_end : {None, "2025-01-12"},
     status : {None, "Not started", "Done"}, assignees : {<<>>},
     created_time : {"c0"}, last_edited_time : {"m0"}, url : {"u0"}]

Candidates ==
    [id : {"t1"}, title : {"Write report", "Untitled"},
     due_start : {None, "2025-01-10", "2025-01-11"}, due_end : {None, "2025-01-12"},
     status : {None, "Not started", "Done"}, assignees : {<<>>, <<"Ann">>},
     created_time : {"c0", "c1"}, last_edited_time : {"m0", "m1"}, url : {"u0", "u1"}]

InitChange ==
    /\ \/ cache = EmptyCache /\ clock = 0 /\ events = 0 /\ synced = {}
       \/ /\ \E snap \in Snapshots :
               cache = set_entry(EmptyCache, "t1", EventIdentifier(1), snap,
                                 get_exporter_name, 1)
          /\ clock = 1 /\ events = 1 /\ synced = {"t1"}
    /\ file = IF cache = EmptyCache THEN AbsentFile ELSE Dump(cache)
    /\ skip_completed = TRUE
    /\ tasks = <<>>
    /\ pc = "idle" /\ ntasks = 0 /\ i = 1 /\ result = NewResult /\ steps = 0
    /\ last = NoStep /\ shadowCache = EmptyCache /\ shadowFile = AbsentFile
    /\ clean = FALSE /\ round = 0
    /\ call = NoCall /\ ret = None /\ error = FALSE /\ mapping = TRUE
    /\ auth = NoAuth
    /\ threads = NoThreads
    /\ runs = NoRuns

\* A caller applies has_changes to the store.
HasChangesCall ==
    /\ call = NoCall
    /\ \E notion_id \in TaskIds, cand \in Candidates :
        LET task_data == [cand EXCEPT !.id = notion_id]
        IN /\ call' = [op |-> "has_changes", id |-> notion_id, task_data |-> task_data]
           /\ ret' = has_changes(cache, notion_id, task_data)
    /\ UNCHANGED <<cache, file, skip_completed, pc, tasks, ntasks, i, result, clock,
                   events, steps, last, shadowCache, shadowFile, synced, clean, round,
                   error, mapping, auth, threads, runs>>

\* The caller has taken the value returned; the store is as it was.
HasChangesReturn ==
    /\ call # NoCall
    /\ call' = NoCall
    /\ ret' = None
    /\ UNCHANGED <<cache, file, skip_completed, pc, tasks, ntasks, i, result, clock,
                   events, steps, last, shadowCache, shadowFile, synced, clean, round,
                   error, mapping, auth, threads, runs>>

NextChange == HasChangesCall \/ HasChangesReturn

SpecChange == InitChange /\ [][NextChange]_vars

\* ------------------------------------------ has_changes on partial records
\* A record of task data whose watched fields are each absent, null or set.
FieldStates == {"absent", "null", "value"}

FieldValue ==
    [title |-> "Write report", due_start |-> "2025-01-10",
     due_end |-> "2025-01-12", status |-> "Done"]

Shapes == [DOMAIN FieldValue -> FieldStates]

PartialData(shape) ==
    [f \in {g \in DOMAIN shape : shape[g] # "absent"} |->
        IF shape[f] = "null" THEN None ELSE FieldValue[f]]

\* The store was loaded from a file whose entry for t1 has any of the shapes.
InitNull ==
    /\ \E shape \in Shapes :
         file = Dump(set_entry(EmptyCache, "t1", EventIdentifier(1),
                               PartialData(shape), get_exporter_name, 1))
    /\ cache = Load(file)
    /\ clock = 1 /\ events = 1 /\ synced = {"t1"}
    /\ skip_completed = TRUE
    /\ tasks = <<>>
    /\ pc = "idle" /\ ntasks = 0 /\ i = 1 /\ result = NewResult /\ steps = 0
    /\ last = NoStep /\ shadowCache = EmptyCache /\ shadowFile = AbsentFile
    /\ clean = FALSE /\ round = 0
    /\ call = NoCall /\ ret = None /\ error = FALSE /\ mapping = TRUE
    /\ auth = NoAuth
    /\ threads = NoThreads
    /\ runs = NoRuns

\* A caller applies has_changes to a candidate of any of the shapes.
PartialHasChangesCall ==
    /\ call = NoCall
    /\ \E shape \in Shapes :
        LET task_data == PartialData(shape)
        IN /\ call' = [op |-> "has_changes", id |-> "t1", task_data |-> task_data]
           /\ ret' = has_changes(cache, "t1", task_data)
    /\ UNCHANGED <<cache, file, skip_completed, pc, tasks, ntasks, i, result, clock,
                   events, steps, last, shadowCache, shadowFile, synced, clean, round,
                   error, mapping, auth, threads, runs>>

NextNull == PartialHasChangesCall \/ HasChangesReturn

SpecNull == InitNull /\ [][NextNull]_vars

\* ---- SpecStore: the operations of ExportCache applied to one cache file by
\* a process and by the processes started after it, MaxOps mutating
\* operations in all.
\* The snapshots, exporter tags and filters of the calls.
StoreData(id) ==
    { ExtractTaskData(BasePage(id)),
      ExtractTaskData([BasePage(id) EXCEPT !.status = "Done"]) }

ExporterTypes == {get_exporter_name, "other"}

Filters == {None, ""} \cup ExporterTypes

\* The states the cache file can be in when the first process starts; the
\* document was written by set_entry at time 1.
StoreFiles ==
    { AbsentFile, EmptyFile, PartialFile, NotMappingFile, UndecodableFile,
      UnreadableFile }
    \cup { Dump(set_entry(EmptyCache, "t1", EventIdentifier(1), snap,
                          get_exporter_name, 1)) : snap \in StoreData("t1") }

\* The variables the operations of ExportCache leave alone.
exportVars == <<skip_completed, tasks, ntasks, i, result, events, shadowCache,
                shadowFile, synced, clean, round, auth, threads, runs>>

InitStore ==
    /\ file \in StoreFiles
    /\ cache = EmptyCache
    /\ skip_completed = TRUE
    /\ tasks = <<>>
    /\ pc = "new" /\ ntasks = 0 /\ i = 1 /\ result = NewResult /\ steps = 0
    /\ clock = 1 /\ events = 1 /\ synced = {"t1"}
    /\ last = NoStep /\ shadowCache = EmptyCache /\ shadowFile = AbsentFile
    /\ clean = FALSE /\ round = 0
    /\ call = NoCall /\ ret = None /\ error = FALSE /\ mapping = TRUE
    /\ auth = NoAuth
    /\ threads = NoThreads
    /\ runs = NoRuns

\* `call` for an operation applied to notion_id.
Op(name, notion_id) == [op |-> name, id |-> notion_id, task_data |-> EmptyCache]

\* `last` after a call of _save that ended with outcome s.
Saved(notion_id, s) == [NoStep EXCEPT !.id = notion_id, !.save = s]

\* ExportCache.__init__ on the file as it is.
ConstructOn ==
    /\ call' = Op("__init__", None)
    /\ ret' = None
    /\ last' = NoStep
    /\ error' = LoadRaises(file)
    /\ IF LoadRaises(file)
       THEN pc' = "aborted" /\ cache' = EmptyCache /\ mapping' = TRUE
       ELSE pc' = "idle" /\ cache' = Load(file) /\ mapping' = LoadsMapping(file)
    /\ UNCHANGED <<file, clock, steps, exportVars>>

\* The first process constructs its ExportCache.
Construct == pc = "new" /\ ConstructOn

\* The process ends and the next one constructs its ExportCache.
Reopen == pc \in {"idle", "aborted"} /\ ConstructOn

\* set_entry is called. On a store that is a list the item assignment
\* raises TypeError.
SetEntryCall ==
    /\ pc = "idle"
    /\ steps < MaxOps
    /\ \E notion_id \in TaskIds, exporter_type \in ExporterTypes, s \in SaveOutcomes :
       \E task_data \in StoreData(notion_id) :
        /\ call' = [op |-> "set_entry", id |-> notion_id, task_data |-> task_data]
        /\ IF mapping
           THEN \E c1 \in {set_entry(cache, notion_id, EventIdentifier(clock + 1),
                                     task_data, exporter_type, clock + 1)} :
                  /\ cache' = c1
                  /\ file' = Save(c1, file, s)
                  /\ error' = SaveRaises(s)
                  /\ last' = Saved(notion_id, s)
                  /\ clock' = clock + 1
           ELSE /\ s = "ok"
                /\ error' = TRUE
                /\ UNCHANGED <<cache, file, last, clock>>
    /\ ret' = None
    /\ steps' = steps + 1
    /\ UNCHANGED <<pc, mapping, exportVars>>

\* remove_entry is called. `in` on a list that does not hold the id is False.
RemoveEntryCall ==
    /\ pc = "idle"
    /\ steps < MaxOps
    /\ \E notion_id \in TaskIds, s \in SaveOutcomes :
        /\ call' = Op("remove_entry", notion_id)
        /\ IF mapping /\ RemoveSaves(cache, notion_id)
           THEN \E c1 \in {remove_entry(cache, notion_id)} :
                  /\ cache' = c1
                  /\ file' = Save(c1, file, s)
                  /\ error' = SaveRaises(s)
                  /\ last' = Saved(notion_id, s)
           ELSE /\ s = "ok"
                /\ error' = FALSE
                /\ UNCHANGED <<cache, file, last>>
    /\ ret' = None
    /\ steps' = steps + 1
    /\ UNCHANGED <<pc, clock, mapping, exportVars>>

\* clear is called: self.cache is a dict after it, whatever it was.
ClearCall ==
    /\ pc = "idle"
    /\ steps < MaxOps
    /\ \E s \in SaveOutcomes :
        /\ cache' = clear
        /\ file' = Save(clear, file, s)
        /\ error' = SaveRaises(s)
        /\ last' = Saved(None, s)
    /\ call' = Op("clear", None)
    /\ ret' = None
    /\ mapping' = TRUE
    /\ steps' = steps + 1
    /\ UNCHANGED <<pc, clock, exportVars>>

\* get_entry is called. A list has no get: AttributeError.
GetEntryCall ==
    /\ pc = "idle"
    /\ \E notion_id \in TaskIds :
        /\ call' = Op("get_entry", notion_id)
        /\ ret' = IF mapping THEN get_entry(cache, notion_id) ELSE None
    /\ error' = ~mapping
    /\ UNCHANGED <<cache, file, pc, clock, steps, last, mapping, exportVars>>

\* has_changes is called; it calls get_entry (AttributeError on a list).
StoreHasChangesCall ==
    /\ pc = "idle"
    /\ \E notion_id \in TaskIds :
       \E task_data \in StoreData(notion_id) :
        /\ call' = [op |-> "has_changes", id |-> notion_id, task_data |-> task_data]
        /\ ret' = IF mapping THEN has_changes(cache, notion_id, task_data) ELSE None
    /\ error' = ~mapping
    /\ UNCHANGED <<cache, file, pc, clock, steps, last, mapping, exportVars>>

\* get_external_id is called; it calls get_entry (AttributeError on a list).
GetExternalIdCall ==
    /\ pc = "idle"
    /\ \E notion_id \in TaskIds :
        /\ call' = Op("get_external_id", notion_id)
        /\ ret' = IF mapping THEN get_external_id(cache, notion_id) ELSE None
    /\ error' = ~mapping
    /\ UNCHANGED <<cache, file, pc, clock, steps, last, mapping, exportVars>>

\* get_all_entries is called. A list has no items (AttributeError) and has
\* a copy.
GetAllEntriesCall ==
    /\ pc = "idle"
    /\ \E exporter_type \in Filters :
        /\ call' = Op("get_all_entries", exporter_type)
        /\ ret' = IF mapping THEN get_all_entries(cache, exporter_type) ELSE EmptyCache
        /\ error' = (~mapping /\ Truthy(exporter_type))
    /\ UNCHANGED <<cache, file, pc, clock, steps, last, mapping, exportVars>>

\* The caller changes the external_id of an entry of the mapping that
\* get_all_entries returned: the object is changed, wherever it is held.
MutateReturnedEntry ==
    /\ pc = "idle"
    /\ call.op = "get_all_entries" /\ mapping /\ ~error
    /\ \E k \in DOMAIN ret :
        /\ call' = Op("mutate_entry", k)
        /\ ret' = [ret EXCEPT ![k].external_id = "changed"]
        /\ cache' = IF k \in SharedEntries(ret)
                    THEN [cache EXCEPT ![k].external_id = "changed"] ELSE cache
        /\ last' = IF k \in SharedEntries(ret) THEN NoStep ELSE last
    /\ UNCHANGED <<file, pc, clock, steps, error, mapping, exportVars>>

\* The caller deletes a key of the mapping that get_all_entries returned.
MutateReturnedMapping ==
    /\ pc = "idle"
    /\ call.op = "get_all_entries" /\ mapping /\ ~error
    /\ \E k \in DOMAIN ret :
        /\ call' = Op("mutate_mapping", k)
        /\ ret' = [j \in DOMAIN ret \ {k} |-> ret[j]]
    /\ UNCHANGED <<cache, file, pc, clock, steps, last, error, mapping, exportVars>>

NextStore ==
    \/ Construct \/ Reopen \/ SetEntryCall \/ RemoveEntryCall \/ ClearCall
    \/ GetEntryCall \/ StoreHasChangesCall \/ GetExternalIdCall
    \/ GetAllEntriesCall \/ MutateReturnedEntry
    \/ MutateReturnedMapping

SpecStore == InitStore /\ [][NextStore]_vars

\* ------------------------------------- one ExportCache, several threads
\* set_entry, remove_entry and _save take no lock. A call runs in the steps
\* at which another thread can run in between: the change of self.cache,
\* open(cache_file, "w"), the iteration of json.dump over self.cache, and the
\* close that flushes what json.dump wrote. The file operations succeed.

\* The stores the threads start from, each one on the file.
ThreadStores ==
    { EmptyCache,
      set_entry(EmptyCache, "t1", EventIdentifier(1),
                ExtractTaskData(BasePage("t1")), get_exporter_name, 1) }

InitThreads ==
    /\ cache \in ThreadStores
    /\ file = Dump(cache)
    /\ skip_completed = TRUE
    /\ tasks = <<>>
    /\ pc = "idle" /\ ntasks = 0 /\ i = 1 /\ result = NewResult /\ steps = 0
    /\ clock = 1 /\ events = 1 /\ synced = {"t1"}
    /\ last = NoStep /\ shadowCache = EmptyCache /\ shadowFile = AbsentFile
    /\ clean = FALSE /\ round = 0
    /\ call = NoCall /\ ret = None /\ error = FALSE /\ mapping = TRUE
    /\ auth = NoAuth
    /\ threads = NoThreads
    /\ runs = NoRuns

\* `threads[t]` at position p of the call of op on notion_id, with buf what
\* json.dump has written to the file object.
InCall(p, op, notion_id, buf) ==
    [pc |-> p, op |-> op, id |-> notion_id, buf |-> buf]

\* set_entry, lines 100-105: thread t assigns the entry.
ThreadSetEntry(t) ==
    /\ threads[t].pc = "ready"
    /\ steps < MaxOps
    /\ \E notion_id \in TaskIds :
        /\ cache' = set_entry(cache, notion_id, EventIdentifier(clock + 1),
                              ExtractTaskData(BasePage(notion_id)),
                              get_exporter_name, clock + 1)
        /\ threads' = [threads EXCEPT ![t] = InCall("changed", "set_entry", notion_id,
                                                   AbsentFile)]
    /\ clock' = clock + 1
    /\ steps' = steps + 1
    /\ UNCHANGED <<file, pc, last, call, ret, error, mapping, auth, skip_completed,
                   tasks, ntasks, i, result, events, shadowCache, shadowFile,
                   synced, clean, round, runs>>

\* remove_entry, lines 114-115: thread t deletes the entry, or returns when
\* there is none.
ThreadRemoveEntry(t) ==
    /\ threads[t].pc = "ready"
    /\ steps < MaxOps
    /\ \E notion_id \in TaskIds :
        /\ cache' = remove_entry(cache, notion_id)
        /\ threads' = IF RemoveSaves(cache, notion_id)
                      THEN [threads EXCEPT ![t] = InCall("changed", "remove_entry",
                                                         notion_id, AbsentFile)]
                      ELSE threads
    /\ steps' = steps + 1
    /\ UNCHANGED <<file, pc, clock, last, call, ret, error, mapping, auth,
                   skip_completed, tasks, ntasks, i, result, events, shadowCache,
                   shadowFile, synced, clean, round, runs>>

\* _save, line 44: open(cache_file, "w") truncates the file.
ThreadOpen(t) ==
    /\ threads[t].pc = "changed"
    /\ file' = EmptyFile
    /\ threads' = [threads EXCEPT ![t].pc = "open"]
    /\ UNCHANGED <<cache, pc, clock, steps, last, call, ret, error, mapping, auth,
                   skip_completed, tasks, ntasks, i, result, events, shadowCache,
                   shadowFile, synced, clean, round, runs>>

\* _save, line 45: json.dump begins to iterate over self.cache.
ThreadDumpBegin(t) ==
    /\ threads[t].pc = "open"
    /\ threads' = [threads EXCEPT ![t].pc = "dumping", ![t].buf = Dump(cache)]
    /\ UNCHANGED <<cache, file, pc, clock, steps, last, call, ret, error, mapping,
                   auth, skip_completed, tasks, ntasks, i, result, events,
                   shadowCache, shadowFile, synced, clean, round, runs>>

\* _save, line 45: the iteration ends. If self.cache has changed size since
\* it began it raises RuntimeError, which is no IOError: the with statement
\* closes the file on the part written and the exception leaves the call.
\* Otherwise each entry was written as it was at some instant of the
\* iteration.
ThreadDumpEnd(t) ==
    /\ threads[t].pc = "dumping"
    /\ IF Cardinality(DOMAIN cache) # Cardinality(DOMAIN threads[t].buf.data)
       THEN /\ threads' = [threads EXCEPT ![t].pc = "raised", ![t].buf = AbsentFile]
            /\ file' = PartialFile
       ELSE /\ \E doc \in {threads[t].buf, Dump(cache)} :
                 threads' = [threads EXCEPT ![t].pc = "dumped", ![t].buf = doc]
            /\ file' = file
    /\ UNCHANGED <<cache, pc, clock, steps, last, call, ret, error, mapping, auth,
                   skip_completed, tasks, ntasks, i, result, events, shadowCache,
                   shadowFile, synced, clean, round, runs>>

\* What the file holds after doc is written from its first byte on: a
\* document of more members, written by another thread since this one opened
\* the file, keeps its tail behind doc.
Flush(doc, f) ==
    CASE f.kind = "partial" -> PartialFile
      [] f.kind = "json" /\ Cardinality(DOMAIN f.data) > Cardinality(DOMAIN doc.data)
           -> PartialFile
      [] OTHER -> doc

\* _save, lines 44-45: leaving the with statement flushes the buffer of the
\* file object and closes it; the call returns.
ThreadClose(t) ==
    /\ threads[t].pc = "dumped"
    /\ file' = Flush(threads[t].buf, file)
    /\ threads' = [threads EXCEPT ![t] = NoThreads[t]]
    /\ UNCHANGED <<cache, pc, clock, steps, last, call, ret, error, mapping, auth,
                   skip_completed, tasks, ntasks, i, result, events, shadowCache,
                   shadowFile, synced, clean, round, runs>>

NextThreads ==
    \E t \in ThreadIds :
        \/ ThreadSetEntry(t) \/ ThreadRemoveEntry(t) \/ ThreadOpen(t)
        \/ ThreadDumpBegin(t) \/ ThreadDumpEnd(t) \/ ThreadClose(t)

SpecThreads == InitThreads /\ [][NextThreads]_vars

\* ------------------------------------- one cache file, several processes
\* Each process builds its exporter, whose ExportCache loads the file, and
\* runs export_tasks on records of its own; the calendar and the file
\* operations succeed.

\* The outcomes of an iteration whose calls all succeed.
AllSucceed == [o |-> [fetch |-> "found", create |-> "ok", update |-> "ok"],
               s |-> "ok"]

InitShared ==
    /\ file \in { AbsentFile,
                  Dump(set_entry(EmptyCache, "t1", EventIdentifier(1),
                                 ExtractTaskData(BasePage("t1")),
                                 get_exporter_name, 1)) }
    /\ cache = EmptyCache
    /\ skip_completed = TRUE
    /\ tasks = <<>>
    /\ pc = "idle" /\ ntasks = 0 /\ i = 1 /\ result = NewResult /\ steps = 0
    /\ clock = 1 /\ events = 1 /\ synced = {"t1"}
    /\ last = NoStep /\ shadowCache = EmptyCache /\ shadowFile = AbsentFile
    /\ clean = FALSE /\ round = 0
    /\ call = NoCall /\ ret = None /\ error = FALSE /\ mapping = TRUE
    /\ auth = NoAuth
    /\ threads = NoThreads
    /\ runs = NoRuns

\* TaskExporter.__init__ of process r: ExportCache(cache_file) loads the file
\* as it is now.
RunConstruct(r) ==
    /\ runs[r].pc = "new"
    /\ runs' = [runs EXCEPT ![r] = [pc |-> "running", cache |-> Load(file),
                                    loaded |-> clock, saved |-> 0]]
    /\ UNCHANGED <<cache, file, skip_completed, pc, tasks, ntasks, i, result, clock,
                   events, steps, last, shadowCache, shadowFile, synced, clean,
                   round, call, ret, error, mapping, auth, threads>>

\* One iteration of export_tasks in process r, on its own self.cache; a
\* set_entry writes that mapping over the file.
RunProcess(r) ==
    /\ runs[r].pc = "running"
    /\ steps < MaxOps
    /\ \E task \in Pages :
       \E task_data \in {ExtractTaskData(task)} :
       \E st \in {Reconcile(runs[r].cache, skip_completed, task.id, task_data,
                            AllSucceed.o, events + 1)} :
       \E c1 \in {StoreAfter(runs[r].cache, task.id, task_data, st, clock + 1)} :
          /\ runs' = [runs EXCEPT ![r].cache = c1,
                                  ![r].saved = IF st.write THEN clock + 1 ELSE @]
          /\ file' = FileAfter(c1, file, st, AllSucceed.s)
          /\ clock' = IF st.write THEN clock + 1 ELSE clock
          /\ events' = IF st.bucket = "created" THEN events + 1 ELSE events
    /\ steps' = steps + 1
    /\ UNCHANGED <<cache, skip_completed, pc, tasks, ntasks, i, result, last,
                   shadowCache, shadowFile, synced, clean, round, call, ret, error,
                   mapping, auth, threads>>

\* export_tasks of process r has returned and the process ends.
RunFinish(r) ==
    /\ runs[r].pc = "running"
    /\ runs' = [runs EXCEPT ![r].pc = "finished"]
    /\ UNCHANGED <<cache, file, skip_completed, pc, tasks, ntasks, i, result, clock,
                   events, steps, last, shadowCache, shadowFile, synced, clean,
                   round, call, ret, error, mapping, auth, threads>>

NextShared == \E r \in RunIds : RunConstruct(r) \/ RunProcess(r) \/ RunFinish(r)

SpecShared == InitShared /\ [][NextShared]_vars

\* ---- SpecAccess: one call of export_tasks by a new process, with the
\* authorization handshake of _request_calendar_access step by step. pc
\* stays "idle" until the checks before the loop are over.
\* export_tasks, lines 389-394, and _request_calendar_access, lines 66-104:
\* the configuration is valid, the status is read and, when it is not
\* determined, access is requested and the wait begins.
RequestAccess ==
    /\ pc = "idle" /\ steps = 0
    /\ auth.pc = "none"
    /\ \E status \in AuthStatuses :
        auth' = IF status = 0
                THEN [NoAuth EXCEPT !.pc = "wait"]
                ELSE [NoAuth EXCEPT !.pc = "returned", !.status = status,
                                    !.result = (status >= 3)]
    /\ UNCHANGED <<cache, file, skip_completed, pc, tasks, ntasks, i, result, clock,
                   events, steps, last, shadowCache, shadowFile, synced, clean,
                   round, call, ret, error, mapping, threads, runs>>

\* _request_calendar_access, lines 110-115: one turn of the while loop. The
\* run loop runs for a tenth of a second at most; the clock may pass to the
\* next second and the completion handler (lines 97-101) may be called.
RunLoop ==
    /\ auth.pc = "wait"
    /\ KeepWaiting(auth.completed, auth.elapsed)
    /\ \E tick \in 0..1, fired \in BOOLEAN, granted \in BOOLEAN :
        /\ fired \/ ~granted
        /\ auth' = [auth EXCEPT !.elapsed = @ + tick, !.completed = fired,
                                !.granted = granted]
    /\ UNCHANGED <<cache, file, skip_completed, pc, tasks, ntasks, i, result, clock,
                   events, steps, last, shadowCache, shadowFile, synced, clean,
                   round, call, ret, error, mapping, threads, runs>>

\* _request_calendar_access, lines 117-136: the loop is over.
AccessReturn ==
    /\ auth.pc = "wait"
    /\ ~KeepWaiting(auth.completed, auth.elapsed)
    /\ auth' = [auth EXCEPT !.pc = "returned",
                            !.result = AccessResult(auth.completed, auth.granted)]
    /\ UNCHANGED <<cache, file, skip_completed, pc, tasks, ntasks, i, result, clock,
                   events, steps, last, shadowCache, shadowFile, synced, clean,
                   round, call, ret, error, mapping, threads, runs>>

\* export_tasks, lines 394-401: access was refused and it returns, or access
\* was granted and it goes on to the calendar and the loop. `auth` keeps the
\* handshake of a refusal.
AccessBegin ==
    /\ pc = "idle"
    /\ auth.pc = "returned"
    /\ \E len \in 0..MaxSteps, start \in StartOutcomes :
        /\ start = "access_denied" <=> ~auth.result
        /\ start # "config_invalid"
        /\ Begin(len, start)
    /\ auth' = IF auth.result THEN [NoAuth EXCEPT !.pc = "over"] ELSE auth
    /\ UNCHANGED <<twiceVars, call, ret, error, mapping, threads, runs>>

NextAccess ==
    RequestAccess \/ RunLoop \/ AccessReturn \/ AccessBegin \/ ProcessTask
    \/ ExportReturn

SpecAccess == Init /\ [][NextAccess]_vars

\* ---- SpecCancel: Spec with the one cancellation signal a Python process
\* has, SIGINT, delivered while export_tasks is in its loop.
\* export_tasks, lines 404-463: KeyboardInterrupt is raised in the loop. It
\* is a BaseException, which "except Exception" (line 460) does not catch,
\* and the loop tests no flag: the exception leaves export_tasks and no
\* result is returned. It is raised between two records, or in the record
\* task after its fetch, create or update call returned: a created event is
\* then in the calendar and the store is without its entry.
Interrupt(task) ==
    /\ pc = "loop"
    /\ i <= ntasks
    /\ \/ UNCHANGED <<events, last, steps>>
       \/ \E x \in Scenarios, task_data \in {ExtractTaskData(task)} :
          \E st \in {Reconcile(cache, skip_completed, task.id, task_data, x.o,
                               events + 1)} :
            /\ x.s = "ok"
            /\ Made(st, x.o, x.s)
            /\ st.calls # <<>> /\ ~st.raised
            /\ events' = IF st.bucket = "created" THEN events + 1 ELSE events
            /\ last' = LogEntry(task.id, task_data, st, x.o, "-", "none")
            /\ steps' = steps + 1
    /\ pc' = "interrupted"
    /\ UNCHANGED <<cache, file, skip_completed, ntasks, i, result, clock,
                   shadowCache, shadowFile, synced>>

CancelSignal ==
    /\ \E task \in Pages : Interrupt(task)
    /\ UNCHANGED <<twiceVars, apiVars>>

NextCancel == Next \/ CancelSignal

SpecCancel == Init /\ [][NextCancel]_vars

\* ------------------------------------------------------------------ claims
\* The errors the checks before the loop report.
StartErrors == { StartError(start) : start \in StartOutcomes \ {"ok"} }

\* export_tasks returned before the loop.
EarlyReturn == pc = "done" /\ Len(result.errors) = 1 /\ result.errors[1] \in StartErrors

\* The state is the one an iteration of the loop left (a return after the
\* loop changes neither the store nor the file).
AfterStep == pc \in {"loop", "done"} /\ last.id # None

\* C1: when export_tasks returns after the loop, created + updated + skipped
\* equals the number of records of the batch, whatever the calendar answered.
\* Violated: an exception from _create_event reaches the except clause, which
\* appends an error and increments no counter.
C1_CountsSumToBatch ==
    (pc = "done" /\ ~EarlyReturn)
        => result.created + result.updated + result.skipped = ntasks

\* C2: on every return of export_tasks, success is true exactly when the
\* errors list is empty.
C2_SuccessIffNoErrors ==
    pc = "done" => (result.success <=> result.errors = <<>>)

\* C2 witness: a return after the loop with the error of a record, success false.
C2_Witness ==
    pc = "done" /\ ~EarlyReturn /\ last.raised /\ result.errors # <<>> /\ ~result.success

\* Two records of a batch share their source id and differ in a watched field.
Conflict(batch) ==
    \E a, b \in 1..Len(batch) :
        /\ batch[a].id = batch[b].id
        /\ \E n \in 1..Len(fields_to_check) :
              ExtractTaskData(batch[a])[fields_to_check[n]]
                  # ExtractTaskData(batch[b])[fields_to_check[n]]

\* The second call on the batch has returned after the loop, and in the first
\* no call into the calendar failed and every _save succeeded.
SecondCleanReturn == round = 2 /\ pc = "done" /\ ~EarlyReturn /\ clean

\* C3 as claimed: the second of two calls on the same batch, the calendar and
\* the persistence succeeding, creates and updates nothing and skips every
\* record. Violated by a batch that holds a source id twice with different
\* watched fields: the store ends the first call with the later record, so
\* the second call updates the event for the earlier one.
C3_SecondRunAllSkipped ==
    SecondCleanReturn
        => result.created = 0 /\ result.updated = 0 /\ result.skipped = Len(tasks)

\* C3 amended: the same, for batches in which no two records share a source
\* id and differ in a watched field.
C3_SecondRunAllSkippedNoConflict ==
    (SecondCleanReturn /\ ~Conflict(tasks))
        => result.created = 0 /\ result.updated = 0 /\ result.skipped = Len(tasks)

\* C3 witness: the second call returns with every record skipped, the first
\* having created events for a batch of two records or more.
C3_Witness ==
    /\ SecondCleanReturn /\ ~Conflict(tasks)
    /\ Len(tasks) >= 2 /\ events >= 2 /\ result.skipped = Len(tasks)

\* The watched fields of two records agree.
SameWatched(a, b) ==
    a.title = b.title /\ a.due_start = b.due_start /\ a.due_end = b.due_end
        /\ a.status = b.status

\* C4: has_changes(id, candidate) is true exactly when the store has no entry
\* for id or one of title, due_start, due_end, status differs between the
\* candidate and the snapshot; a candidate that differs from it in assignees,
\* url, created_time or last_edited_time only yields false.
C4_HasChangesWatchedFields ==
    call.op = "has_changes"
        => ret = (~HasEntry(cache, call.id)
                    \/ ~SameWatched(call.task_data, cache[call.id].task_data))

\* C4 witness: a candidate that differs from the snapshot in assignees, url
\* and the two timestamps only, and is reported unchanged.
C4_Witness ==
    /\ call.op = "has_changes" /\ HasEntry(cache, call.id)
    /\ SameWatched(call.task_data, cache[call.id].task_data)
    /\ call.task_data.assignees # cache[call.id].task_data.assignees
    /\ call.task_data.url # cache[call.id].task_data.url
    /\ call.task_data.created_time # cache[call.id].task_data.created_time
    /\ call.task_data.last_edited_time # cache[call.id].task_data.last_edited_time
    /\ ret = FALSE

\* C5: when the fetch of a changed record's cached external_id does not
\* resolve (not found, or an exception), the iteration calls create, and when
\* create succeeds the record is counted as created and the store maps its
\* source id to the identifier create returned, which is none issued before.
C5_StaleReferenceRecreated ==
    (AfterStep /\ last.fetch \in {"not_found", "raise"})
        => /\ last.calls = <<"fetch", "create">>
           /\ last.create = "ok"
                => /\ last.bucket = "created"
                   /\ result.created >= 1
                   /\ HasEntry(cache, last.id)
                   /\ cache[last.id].external_id = EventIdentifier(events)
                   /\ \A k \in 1..(events - 1) :
                         cache[last.id].external_id # EventIdentifier(k)

\* C5 witness: a cached identifier was not found, the event was created again
\* and the store holds the new identifier.
C5_Witness ==
    /\ AfterStep /\ last.fetch = "not_found" /\ last.create = "ok"
    /\ last.bucket = "created" /\ events >= 2
    /\ cache[last.id].external_id = EventIdentifier(events)

\* C6: a record whose create or update fails leaves the other records of the
\* batch as they are without it: the loop goes on to the end of the batch,
\* every other record lands in the bucket it lands in when the call is run
\* without the failing records, and store and file are those of that run.
C6_ErrorIsolation ==
    /\ pc \in {"loop", "done"}
         => /\ cache = shadowCache
            /\ file = shadowFile
            /\ ~last.failed => last.shadow = last.bucket
    /\ (pc = "done" /\ ~EarlyReturn) => i = ntasks + 1

\* C6 witness: an earlier record of the call raised in create, and the record
\* after it was synced.
C6_Witness ==
    /\ AfterStep /\ Len(result.errors) = 1 /\ ~last.raised /\ ~last.failed
    /\ last.bucket \in {"created", "updated"} /\ i = 3

\* C7: a record whose create or update fails is counted as skipped, and one
\* error naming it is appended to the errors. Violated: a failure return is
\* counted as skipped without an error, and an exception appends the error
\* without counting the record.
C7_FailureSkippedWithError ==
    (AfterStep /\ last.failed)
        => /\ last.bucket = "skipped"
           /\ last.raised
           /\ result.errors # <<>>
           /\ result.errors[Len(result.errors)] = <<"Error processing task", last.id>>

\* C8: an iteration whose create or update fails changes neither the store
\* nor the file: no entry appears, and an entry keeps its external_id, its
\* snapshot and its last_synced.
C8_FailureLeavesCache ==
    [][(pc = "loop" /\ steps' = steps + 1 /\ last'.failed)
          => (cache' = cache /\ file' = file)]_vars

\* C8 witness: the update of a cached record failed and its entry is there.
C8_Witness ==
    /\ AfterStep /\ last.failed /\ last.update \in {"fail", "raise"}
    /\ HasEntry(cache, last.id)

\* C9: every entry of the store, and of the file, belongs to a source id whose
\* create or update has succeeded, and its external_id is a non-empty
\* identifier that create returned.
C9_EntriesAreSynced ==
    /\ \A id \in DOMAIN cache :
          /\ id \in synced
          /\ cache[id].external_id # "" /\ cache[id].external_id # None
          /\ cache[id].external_id \in Issued
    /\ \A id \in DOMAIN file.data :
          /\ id \in synced
          /\ file.data[id].external_id # "" /\ file.data[id].external_id # None
          /\ file.data[id].external_id \in Issued

\* C9 witness: a new process has loaded two entries from the file.
C9_Witness ==
    pc = "idle" /\ steps = 2 /\ Cardinality(DOMAIN cache) = 2 /\ file = Dump(cache)

\* C10: a crash of the process inside _save leaves the file with the complete
\* store it held before or with the complete new store. Violated: the file is
\* opened with "w", which truncates it, before json.dump writes the new store.
C10_CrashLeavesOldOrNewFile ==
    [][pc' = "crashed" => (file' = file \/ file' = Dump(cache'))]_vars

\* C11: when the write of the cache file fails inside set_entry, the failure
\* reaches the caller: the iteration of export_tasks that called set_entry
\* sees an exception and the result carries an error. Violated: _save
\* catches the IOError of open and of the write, prints a warning and returns
\* None, as it does after a write that reached the disk.
C11_PersistFailureSurfaced ==
    (AfterStep /\ last.save \in {"open_error", "write_error"})
        => /\ last.raised
           /\ result.errors # <<>>

\* C12: whatever state the cache file is in, constructing ExportCache does
\* not abort and leaves a store that is a mapping, the empty one unless the
\* file holds a JSON object, and get_entry on it raises nothing. Violated: a
\* file that is not UTF-8 raises UnicodeDecodeError, which _load does not
\* catch, and a JSON document that is not an object is assigned to self.cache
\* as it is, so that get_entry raises AttributeError.
C12_LoadYieldsUsableStore ==
    /\ pc # "aborted"
    /\ call.op = "__init__" => (mapping /\ (file.kind # "json" => cache = EmptyCache))
    /\ call.op = "get_entry" => ~error

C14_RemoveEntryIdempotent ==
    (call.op = "remove_entry" /\ ~error)
        => /\ call.id \notin DOMAIN cache
           /\ call.id \notin DOMAIN file.data

\* C15: no change the caller makes to the mapping get_all_entries returned,
\* or to an entry in it, changes the store. Violated: the mapping returned is
\* a new dict whose values are the entry objects of self.cache.
C15_GetAllEntriesNoAlias ==
    [][call'.op \in {"mutate_entry", "mutate_mapping"} => cache' = cache]_vars

\* An iteration of the loop of export_tasks is taken.
Iteration == pc = "loop" /\ steps' = steps + 1

\* C16: with skip_completed, a record whose status is "Done" is counted as
\* skipped, no fetch, create or update call is made for it and store and
\* file stay as they are; without skip_completed, such a record with a due
\* date makes calls exactly when has_changes reports a change, as any record.
C16_SkipCompleted ==
    [][(Iteration /\ Get(last'.task_data, "status") = "Done")
          => IF skip_completed
             THEN /\ last'.bucket = "skipped" /\ last'.calls = <<>>
                  /\ result'.skipped = result.skipped + 1
                  /\ result'.errors = result.errors
                  /\ cache' = cache /\ file' = file
             ELSE Truthy(last'.task_data.due_start)
                    => (last'.calls # <<>>
                          <=> has_changes(cache, last'.id, last'.task_data))]_vars

\* C16 witness: a record synced earlier with another status comes back as
\* "Done" and is skipped; its entry keeps the earlier status.
C16_Witness ==
    /\ AfterStep /\ skip_completed /\ Get(last.task_data, "status") = "Done"
    /\ last.bucket = "skipped" /\ last.calls = <<>>
    /\ HasEntry(cache, last.id) /\ cache[last.id].task_data.status # "Done"

\* C17: a record without due_start is counted as skipped, no fetch, create
\* or update call is made for it and store and file stay as they are, also
\* when the store has an entry for it from an earlier sync.
C17_NoDueDateSkipped ==
    [][(Iteration /\ ~Truthy(Get(last'.task_data, "due_start")))
          => /\ last'.bucket = "skipped" /\ last'.calls = <<>>
             /\ result'.skipped = result.skipped + 1
             /\ result'.errors = result.errors
             /\ cache' = cache /\ file' = file]_vars

\* C17 witness: a record synced earlier with a due date comes back without
\* one and is skipped; its entry keeps the due date.
C17_Witness ==
    /\ AfterStep /\ ~Truthy(Get(last.task_data, "due_start"))
    /\ last.bucket = "skipped" /\ last.calls = <<>>
    /\ HasEntry(cache, last.id) /\ Truthy(cache[last.id].task_data.due_start)

\* The result carries the error of a check made before the loop.
StartFailed == \E n \in 1..Len(result.errors) : result.errors[n] \in StartErrors

\* C18: when the configuration, the calendar access or the calendar lookup
\* fails, export_tasks has returned with success false, that one error,
\* created = updated = skipped = 0, no iteration made (so no fetch, create or
\* update call) and store and file as they were when it was called.
C18_FailFast ==
    StartFailed
        => /\ pc = "done"
           /\ ~result.success
           /\ Len(result.errors) = 1
           /\ result.created = 0 /\ result.updated = 0 /\ result.skipped = 0
           /\ i = 1 /\ last = NoStep
           /\ cache = shadowCache /\ file = shadowFile

\* C18 witness: a call on a batch of a record returned before the loop, the
\* store holding an entry of an earlier call.
C18_Witness ==
    /\ StartFailed /\ pc = "done" /\ ntasks >= 1 /\ DOMAIN cache # {}

\* C19: _request_calendar_access waits while fewer than 60 seconds have
\* passed, so never beyond the second in which the timeout elapses; when the
\* callback has not fired it returns false; it returns true only when the
\* status was authorized or the callback reported granted; and after false
\* export_tasks returns the access-denied result with no record processed.
C19_AccessBoundedFailsClosed ==
    /\ auth.elapsed <= timeout
    /\ (auth.pc = "wait" /\ auth.elapsed = timeout) => ~ENABLED RunLoop
    /\ auth.pc = "returned"
         => /\ (auth.status = 0 /\ ~auth.completed)
                 => (~auth.result /\ auth.elapsed = timeout)
            /\ auth.result => (auth.status >= 3 \/ (auth.completed /\ auth.granted))
            /\ (~auth.result /\ pc # "idle")
                 => /\ pc = "done" /\ ~result.success
                    /\ result.errors = <<StartError("access_denied")>>
                    /\ last = NoStep /\ steps = 0 /\ cache = EmptyCache

\* C19 witness: the callback never fired, the wait ended at 60 seconds and
\* export_tasks returned the access-denied result for a batch of two records.
C19_Witness ==
    /\ auth.pc = "returned" /\ auth.status = 0 /\ ~auth.completed
    /\ auth.elapsed = timeout /\ ~auth.result
    /\ pc = "done" /\ ntasks = 2 /\ result.errors = <<StartError("access_denied")>>

\* C20: when the cancellation signal is raised during the loop, the record
\* in progress is completed, no further record is started and export_tasks
\* returns a result whose counts cover no record beyond those processed.
\* Violated: the loop tests no signal, and KeyboardInterrupt leaves
\* export_tasks from the middle of a record with no result returned.
C20_CancelReturnsPartial ==
    [][(pc = "loop" /\ pc' \notin {"loop", "crashed"})
          => /\ pc' = "done"
             /\ result'.created + result'.updated + result'.skipped <= i' - 1]_vars

C22_CreatePath ==
    [][(Iteration /\ ~HasEntry(cache, last'.id) /\ last'.create = "ok")
          => /\ last'.bucket = "created"
             /\ last'.calls = <<"create">>
             /\ result'.created = result.created + 1
             /\ result'.updated = result.updated /\ result'.skipped = result.skipped
             /\ events' = events + 1
             /\ DOMAIN cache' = DOMAIN cache \cup {last'.id}
             /\ cache'[last'.id].external_id = EventIdentifier(events')
             /\ cache'[last'.id].task_data = last'.task_data
             /\ cache'[last'.id].exporter_type = get_exporter_name
             /\ \A id \in DOMAIN cache : cache'[id] = cache[id]]_vars

\* C22 witness: the first record of a new store was created and saved.
C22_Witness ==
    /\ AfterStep /\ last.calls = <<"create">> /\ last.bucket = "created"
    /\ result.created = 1 /\ DOMAIN cache = {last.id} /\ file = Dump(cache)
    /\ cache[last.id].task_data = last.task_data

\* C23: an iteration on a changed record whose cached identifier is fetched
\* and whose update call succeeds counts the record as updated, makes no
\* create call and overwrites the entry: the same external_id, the new
\* record's data as snapshot, and no entry more than before.
C23_UpdatePath ==
    [][(Iteration /\ last'.fetch = "found" /\ last'.update = "ok")
          => /\ last'.bucket = "updated"
             /\ last'.calls = <<"fetch", "update">>
             /\ result'.updated = result.updated + 1
             /\ result'.created = result.created /\ result'.skipped = result.skipped
             /\ events' = events
             /\ DOMAIN cache' = DOMAIN cache
             /\ cache'[last'.id].external_id = cache[last'.id].external_id
             /\ cache'[last'.id].task_data = last'.task_data
             /\ cache[last'.id].task_data # last'.task_data
             /\ \A id \in DOMAIN cache \ {last'.id} : cache'[id] = cache[id]]_vars

\* C23 witness: a record created earlier was updated under the identifier
\* it had.
C23_Witness ==
    /\ AfterStep /\ last.bucket = "updated" /\ last.calls = <<"fetch", "update">>
    /\ events = 1 /\ cache[last.id].external_id = EventIdentifier(1)
    /\ cache[last.id].task_data = last.task_data /\ file = Dump(cache)

\* C24: export_tasks writes the file only in an iteration that counts its
\* record as created or updated: an iteration that counts it as skipped, the
\* checks before the loop and the return leave the file, with every
\* last_synced in it, as it was. A call that skips every record writes
\* nothing.
C24_SkippedRunWritesNothing ==
    [][/\ (Iteration /\ last'.bucket = "skipped") => file' = file
       /\ (pc \in {"idle", "done"} /\ pc' \in {"loop", "done"}) => file' = file
       /\ (pc = "loop" /\ pc' = "done") => file' = file]_vars

\* C24 witness: a call on the records of a store that is on the file has
\* returned with every record skipped as unchanged.
C24_Witness ==
    /\ pc = "done" /\ ~EarlyReturn /\ ntasks >= 1 /\ result.skipped = ntasks
    /\ last.calls = <<>> /\ Truthy(Get(last.task_data, "due_start"))
    /\ Get(last.task_data, "status") # "Done"
    /\ HasEntry(cache, last.id) /\ file = Dump(cache)

\* The outcomes of _save in which the file does not receive the store.
SaveFailures == {"open_error", "write_error", "mkdir_error"}

\* C27: after an iteration whose set_entry did not get the store onto the
\* file, the store in memory holds the new entry: has_changes on the same
\* record is false, get_external_id is the identifier just stored, and
\* whatever the calendar would answer, the next occurrence of the record in
\* the batch is skipped with no call to the calendar and no write.
C27_MemoryHoldsAfterFailedSave ==
    (AfterStep /\ last.save \in SaveFailures)
        => /\ HasEntry(cache, last.id)
           /\ cache[last.id].task_data = last.task_data
           /\ ~has_changes(cache, last.id, last.task_data)
           /\ Truthy(get_external_id(cache, last.id))
           /\ last.bucket = "created"
                => get_external_id(cache, last.id) = EventIdentifier(events)
           /\ file # Dump(cache)
           /\ \A x \in Scenarios :
                Reconcile(cache, skip_completed, last.id, last.task_data,
                          x.o, events + 1)
                  = Step("skipped", <<>>, FALSE, None, FALSE, FALSE)

\* C27 witness: the second occurrence of a record was skipped as unchanged
\* although the file never received the entry of the first.
C27_Witness ==
    /\ AfterStep /\ i = 3 /\ last.calls = <<>> /\ last.bucket = "skipped"
    /\ result.created = 1 /\ result.skipped = 1
    /\ HasEntry(cache, last.id) /\ cache[last.id].task_data = last.task_data
    /\ file = AbsentFile

\* C30: an iteration that fetches the cached identifier calls create exactly
\* when the fetch returned no event, an exception of the fetch included.
\* After such an exception a create that succeeds counts the record as
\* created and replaces the identifier of its entry, and no error is added
\* for the fetch.
C30_FetchExceptionIsNotFound ==
    [][Iteration
          => /\ Calls(last'.calls, "fetch")
                  => /\ Calls(last'.calls, "create") <=> last'.fetch # "found"
                     /\ Calls(last'.calls, "update") <=> last'.fetch = "found"
                     /\ Truthy(get_external_id(cache, last'.id))
             /\ (last'.fetch = "raise" /\ last'.create = "ok")
                  => /\ last'.bucket = "created"
                     /\ result'.created = result.created + 1
                     /\ cache'[last'.id].external_id = EventIdentifier(events')
                     /\ cache'[last'.id].external_id # cache[last'.id].external_id
                     /\ cache'[last'.id].task_data = last'.task_data
                     /\ last'.save # "mkdir_error" => result'.errors = result.errors
             /\ (last'.fetch = "raise" /\ last'.create \in {"fail", "empty"})
                  => /\ result'.errors = result.errors
                     /\ cache' = cache]_vars

\* C30 witness: the fetch of a cached identifier raised, the record was
\* created again under a new identifier and the result has no error.
C30_Witness ==
    /\ AfterStep /\ last.fetch = "raise" /\ last.create = "ok"
    /\ last.calls = <<"fetch", "create">> /\ last.bucket = "created"
    /\ result.errors = <<>> /\ events = 2
    /\ cache[last.id].external_id = EventIdentifier(2)

\* The operations of ExportCache that only read.
ReadOps == {"get_entry", "has_changes", "get_external_id"}

\* C25: a call of get_entry, has_changes or get_external_id leaves the store
\* in memory and the cache file as they were, for every id and candidate,
\* and what get_external_id returns is the external_id of the id's entry when
\* the store has one and None when it has none.
C25_ReadsHaveNoEffect ==
    [][call'.op \in ReadOps
          => /\ cache' = cache /\ file' = file
             /\ mapping' = mapping /\ clock' = clock /\ last' = last
             /\ error' = ~mapping
             /\ (call'.op = "get_external_id" /\ ~error')
                  => ret' = IF call'.id \in DOMAIN cache
                            THEN cache[call'.id].external_id ELSE None
             /\ (call'.op = "get_entry" /\ ~error')
                  => ret' = IF call'.id \in DOMAIN cache
                            THEN cache[call'.id] ELSE None]_vars

\* C25 witness: get_external_id has returned the identifier of an entry that
\* set_entry stored, and has_changes can be asked about the same id.
C25_Witness ==
    /\ call.op = "get_external_id" /\ ~error /\ call.id \in DOMAIN cache
    /\ ret = EventIdentifier(2) /\ ret = cache[call.id].external_id
    /\ ENABLED StoreHasChangesCall

\* C29: what get_all_entries(kind) returns is the mapping of exactly the
\* entries whose exporter_type is kind, also when kind is the empty string,
\* and get_all_entries() returns every entry.
C29_FilterIsExact ==
    (call.op = "get_all_entries" /\ mapping /\ ~error)
        => ret = IF call.id = None THEN cache
                 ELSE [k \in {x \in DOMAIN cache :
                                 cache[x].exporter_type = call.id} |-> cache[k]]

\* A field that is absent from the dict or null in it.
Missing(d, field) == field \notin DOMAIN d \/ d[field] = None

\* C28: has_changes compares a watched field that is absent or null on one
\* side as equal exactly when it is absent or null on the other side too:
\* absent against null is no change, absent or null against a value is a
\* change, and two values compare by equality.
C28_AbsentEqualsNull ==
    (call.op = "has_changes" /\ HasEntry(cache, call.id))
        => LET a == call.task_data
               b == cache[call.id].task_data
               same(f) == IF Missing(a, f) \/ Missing(b, f)
                          THEN Missing(a, f) /\ Missing(b, f)
                          ELSE a[f] = b[f]
           IN ret = (\E n \in 1..Len(fields_to_check) : ~same(fields_to_check[n]))

\* C28 witness: has_changes returned False for a candidate without the
\* due_end that the snapshot holds as null, and with the title the snapshot
\* lacks as null.
C28_Witness ==
    /\ call.op = "has_changes" /\ ret = FALSE
    /\ "due_end" \notin DOMAIN call.task_data
    /\ Get(cache[call.id], "task_data") # EmptyCache
    /\ "due_end" \in DOMAIN cache[call.id].task_data
    /\ cache[call.id].task_data.due_end = None
    /\ "title" \notin DOMAIN cache[call.id].task_data
    /\ "title" \in DOMAIN call.task_data
    /\ "status" \in DOMAIN call.task_data /\ call.task_data.status # None

\* Every call of set_entry and remove_entry has returned.
AllReturned == \A t \in ThreadIds : threads[t].pc = "ready"

\* C26: calls of set_entry and remove_entry from several threads exclude one
\* another, so that when the calls have returned the file holds a well-formed
\* document with the effect of every one of them: the store in memory.
C26_ThreadsLeaveStoreOnFile == AllReturned => file = Dump(cache)

\* The iteration before, of this call, created or updated its record.
Written == pc = "loop" /\ last.id # None /\ last.bucket \in {"created", "updated"}

\* C31: what an iteration writes to the store the later iterations of the
\* call see. After a record is created or updated the store holds it as the
\* snapshot of its id; an occurrence of a source id whose watched fields are
\* those of the snapshot is skipped with no call to the calendar and no
\* write, the occurrence just after the write included; and a create for an
\* id that has an entry succeeds only after a fetch that returned no event.
C31_EarlierWriteIsSeen ==
    [][/\ Written => /\ HasEntry(cache, last.id)
                     /\ cache[last.id].task_data = last.task_data
       /\ (Written /\ Iteration /\ last'.id = last.id
             /\ SameWatched(last'.task_data, last.task_data))
            => /\ last'.bucket = "skipped" /\ last'.calls = <<>>
               /\ cache' = cache /\ file' = file /\ events' = events
               /\ result'.created = result.created
       /\ (Iteration /\ HasEntry(cache, last'.id)
             /\ SameWatched(last'.task_data, cache[last'.id].task_data))
            => /\ last'.bucket = "skipped" /\ last'.calls = <<>>
               /\ cache' = cache /\ events' = events
       /\ (Iteration /\ HasEntry(cache, last'.id) /\ last'.create = "ok")
            => last'.fetch \in {"not_found", "raise"}]_vars

\* C31 witness: one call created a record and skipped its second occurrence;
\* the calendar holds one event for it.
C31_Witness ==
    /\ AfterStep /\ i = 3 /\ ntasks = 2
    /\ result.created = 1 /\ result.skipped = 1 /\ result.errors = <<>>
    /\ last.bucket = "skipped" /\ last.calls = <<>>
    /\ Truthy(Get(last.task_data, "due_start"))
    /\ DOMAIN cache = {last.id} /\ events = 1 /\ file = Dump(cache)
    /\ SameWatched(cache[last.id].task_data, last.task_data)

\* C32: one caller at a time and a _save without failure: when set_entry, a
\* remove_entry of an id the store holds, or clear returns, the file is the
\* document of the whole mapping in memory, whatever it held before, and
\* loads as that mapping.
C32_FileIsWholeStore ==
    [][(/\ \/ call'.op \in {"set_entry", "clear"}
           \/ call'.op = "remove_entry" /\ mapping /\ RemoveSaves(cache, call'.id)
        /\ ~error' /\ last'.save = "ok")
          => /\ file' = Dump(cache')
             /\ Load(file') = cache'
             /\ DOMAIN file'.data = DOMAIN cache']_vars

\* C32 witness: remove_entry has removed an entry and returned; the store
\* holds one entry and the file is the document of that entry alone.
C32_Witness ==
    /\ call.op = "remove_entry" /\ ~error /\ last.save = "ok" /\ last.id = call.id
    /\ Cardinality(DOMAIN cache) = 1 /\ call.id \notin DOMAIN cache
    /\ file = Dump(cache) /\ Cardinality(DOMAIN file.data) = 1

\* Process r made the last write of the file.
LastWriter(r) ==
    runs[r].saved > 0 /\ \A q \in RunIds : runs[q].saved <= runs[r].saved

\* The entry for k that process q wrote itself, after process r had loaded.
WroteAfterLoadOf(q, k, r) ==
    /\ k \in DOMAIN runs[q].cache
    /\ runs[q].cache[k].last_synced > runs[q].loaded
    /\ runs[q].cache[k].last_synced > runs[r].loaded

\* C33: of two processes on one cache file each loads the file when it builds
\* its ExportCache and never again: its mapping changes by its own set_entry
\* only. Every write leaves the file as the document of the writer's mapping,
\* so the file is the last writer's mapping, and an entry the other process
\* wrote after the last writer had loaded is not on the file.
C33_LastWriterWins ==
    [][/\ \A r \in RunIds :
            (runs[r].pc = "running" /\ runs'[r].cache # runs[r].cache)
                => /\ file' = Dump(runs'[r].cache)
                   /\ \A k \in DOMAIN runs'[r].cache :
                        \/ runs'[r].cache[k].last_synced = clock'
                        \/ k \in DOMAIN runs[r].cache
                             /\ runs'[r].cache[k] = runs[r].cache[k]
       /\ \A r \in RunIds :
            (LastWriter(r))'
                => /\ file' = Dump(runs'[r].cache)
                   /\ \A q \in RunIds \ {r}, k \in TaskIds :
                        (WroteAfterLoadOf(q, k, r))'
                            => \/ k \notin DOMAIN file'.data
                               \/ file'.data[k] # runs'[q].cache[k]]_vars

\* C33 witness: both processes have finished, and the file lacks the entry
\* one of them wrote after the last writer had loaded.
C33_Witness ==
    /\ \A r \in RunIds : runs[r].pc = "finished"
    /\ \E r \in RunIds, q \in RunIds, k \in TaskIds :
        /\ q # r /\ LastWriter(r) /\ WroteAfterLoadOf(q, k, r)
        /\ k \notin DOMAIN file.data
        /\ file = Dump(runs[r].cache)

====
